---- MODULE Spec2Model ----
(***************************************************************************)
(* Fitness-tracker module homework.py: the three training classes, the     *)
(* dispatcher read_package, the report InfoMessage and the entry-point     *)
(* loop.                                                                   *)
(*                                                                         *)
(* Numbers.  Python's int and float values are modelled as exact rationals *)
(* <<n, d>> in lowest terms with d > 0; every decimal literal of the       *)
(* source is the rational it denotes (0.65 = 13/20).  Binary rounding of   *)
(* float arithmetic is not modelled, so numeric claims are stated either   *)
(* on exact rationals or with an explicit tolerance.  TLC integers are     *)
(* 32 bits wide and TLC stops with an error on overflow, so the input      *)
(* domains below are chosen so that every intermediate numerator and       *)
(* denominator fits.                                                       *)
(*                                                                         *)
(* Exceptions.  A raised Python exception is an outcome record whose exc   *)
(* field names the exception class; "none" is a normal return.             *)
(*                                                                         *)
(* Text.  The module is ASCII, so the Russian literals of get_message and  *)
(* of the KeyError message are transliterated.                             *)
(***************************************************************************)
EXTENDS Integers, Sequences, FiniteSets, TLC

VARIABLES workout_type, data, training, pc, op, exc, ret, info, first,
          created, packages, idx, stdout

vars == <<workout_type, data, training, pc, op, exc, ret, info, first,
          created, packages, idx, stdout>>

----------------------------------------------------------------------------
(* Exact rational arithmetic standing for Python's number arithmetic.      *)

Abs(n) == IF n < 0 THEN -n ELSE n

RECURSIVE GCD(_, _)
GCD(a, b) == IF b = 0 THEN a ELSE GCD(b, a % b)

Rat(n, d) ==
    LET g == GCD(Abs(n), Abs(d))
        s == IF d < 0 THEN -1 ELSE 1
    IN  <<s * (n \div g), s * (d \div g)>>

RInt(n) == <<n, 1>>

Zero == RInt(0)

RMul(a, b) ==
    LET g1 == GCD(Abs(a[1]), b[2])
        g2 == GCD(Abs(b[1]), a[2])
    IN  <<(a[1] \div g1) * (b[1] \div g2), (a[2] \div g2) * (b[2] \div g1)>>

RInv(a) == IF a[1] < 0 THEN <<-a[2], -a[1]>> ELSE <<a[2], a[1]>>

RQuot(a, b) == RMul(a, RInv(b))

RAdd(a, b) ==
    LET g == GCD(a[2], b[2])
    IN  Rat(a[1] * (b[2] \div g) + b[1] * (a[2] \div g), (a[2] \div g) * b[2])

RAbs(a) == <<Abs(a[1]), a[2]>>

(* Python's x / y: ZeroDivisionError when y is zero (int or float).        *)
Ok(v) == [exc |-> "none", arg |-> "", val |-> v]

Raise(e) == [exc |-> e, arg |-> "", val |-> Zero]

Div(a, b) == IF b[1] = 0 THEN Raise("ZeroDivisionError") ELSE Ok(RQuot(a, b))

----------------------------------------------------------------------------
(* Class attributes.                                                       *)

Training_LEN_STEP == Rat(65, 100)

M_IN_KM == 1000

H_IN_MIN == 60

Running_CALORIES_MEAN_SPEED_MULTIPLIER == 18

Running_CALORIES_MEAN_SPEED_SHIFT == Rat(179, 100)

KMH_IN_MS == Rat(278, 1000)

SM_IN_M == 100

CALORIES_WEIGHT_MULTIPLIER_1 == Rat(35, 1000)

CALORIES_WEIGHT_MULTIPLIER_2 == Rat(29, 1000)

Swimming_LEN_STEP == Rat(138, 100)

Swimming_CALORIES_MEAN_SPEED_SHIFT == Rat(11, 10)

Swimming_CALORIES_WEIGHT_MULTIPLIER == 2

(* Variant of LEN_STEP without Swimming's override (C10 depends on it).    *)
LEN_STEP_base(self) == Training_LEN_STEP

(* self.LEN_STEP: the attribute of the instance's class, Swimming          *)
(* overriding Training's.                                                  *)
LEN_STEP(self) ==
    IF self.cls = "Swimming" THEN Swimming_LEN_STEP ELSE Training_LEN_STEP

----------------------------------------------------------------------------
(* Constructors.  An instance is a record of its class name and its        *)
(* attributes; NoTraining stands for "no instance".                        *)

NoTraining == [cls |-> "None"]

Training_init(cls, action, duration, weight) ==
    [cls |-> cls, action |-> action, duration |-> duration, weight |-> weight]

Running(action, duration, weight) ==
    Training_init("Running", action, duration, weight)

SportsWalking(action, duration, weight, height) ==
    Training_init("SportsWalking", action, duration, weight)
        @@ [height |-> height]

Swimming(action, duration, weight, length_pool, count_pool) ==
    Training_init("Swimming", action, duration, weight)
        @@ [length_pool |-> length_pool, count_pool |-> count_pool]

----------------------------------------------------------------------------
(* Methods.  Each returns an outcome: Ok(value) or Raise(exception).       *)

get_distance(self) ==
    Ok(RQuot(RMul(self.action, LEN_STEP(self)), RInt(M_IN_KM)))

Training_get_mean_speed(self) ==
    Div(get_distance(self).val, self.duration)

Swimming_get_mean_speed(self) ==
    Div(RQuot(RMul(self.length_pool, self.count_pool), RInt(M_IN_KM)),
        self.duration)

(* Variant of get_mean_speed that answers 0 for a zero duration instead of *)
(* dividing (C4 depends on the division).                                  *)
get_mean_speed_guarded(self) ==
    IF self.duration = Zero THEN Ok(Zero)
    ELSE IF self.cls = "Swimming"
    THEN Swimming_get_mean_speed(self)
    ELSE Training_get_mean_speed(self)

get_mean_speed(self) ==
    IF self.cls = "Swimming"
    THEN Swimming_get_mean_speed(self)
    ELSE Training_get_mean_speed(self)

(* Variant of Running.get_spent_calories that leaves the duration in hours *)
(* (no factor H_IN_MIN); C7 depends on the factor.                         *)
Running_get_spent_calories_in_hours(self) ==
    LET speed == get_mean_speed(self)
    IN  IF speed.exc # "none" THEN speed
        ELSE Ok(RMul(RQuot(RMul(RAdd(RMul(RInt(Running_CALORIES_MEAN_SPEED_MULTIPLIER),
                                          speed.val),
                                     Running_CALORIES_MEAN_SPEED_SHIFT),
                                self.weight),
                           RInt(M_IN_KM)),
                     self.duration))

Running_get_spent_calories(self) ==
    LET speed == get_mean_speed(self)
    IN  IF speed.exc # "none" THEN speed
        ELSE Ok(RMul(RMul(RQuot(RMul(RAdd(RMul(RInt(Running_CALORIES_MEAN_SPEED_MULTIPLIER),
                                                speed.val),
                                           Running_CALORIES_MEAN_SPEED_SHIFT),
                                      self.weight),
                                 RInt(M_IN_KM)),
                           RInt(H_IN_MIN)),
                     self.duration))

(* Variant of SportsWalking.get_spent_calories with the speed not squared  *)
(* (C8 depends on the square).                                             *)
SportsWalking_get_spent_calories_linear(self) ==
    LET mean == get_mean_speed(self)
    IN  IF mean.exc # "none" THEN mean
        ELSE LET speed == RMul(mean.val, KMH_IN_MS)
                 h     == RQuot(self.height, RInt(SM_IN_M))
                 q     == Div(speed, h)
             IN  IF q.exc # "none" THEN q
                 ELSE Ok(RMul(RMul(RAdd(RMul(CALORIES_WEIGHT_MULTIPLIER_1,
                                             self.weight),
                                        RMul(RMul(q.val,
                                                  CALORIES_WEIGHT_MULTIPLIER_2),
                                             self.weight)),
                                   RInt(H_IN_MIN)),
                              self.duration))

SportsWalking_get_spent_calories(self) ==
    LET mean == get_mean_speed(self)
    IN  IF mean.exc # "none" THEN mean
        ELSE LET speed == RMul(mean.val, KMH_IN_MS)
                 h     == RQuot(self.height, RInt(SM_IN_M))
                 q     == Div(RMul(speed, speed), h)
             IN  IF q.exc # "none" THEN q
                 ELSE Ok(RMul(RMul(RAdd(RMul(CALORIES_WEIGHT_MULTIPLIER_1,
                                             self.weight),
                                        RMul(RMul(q.val,
                                                  CALORIES_WEIGHT_MULTIPLIER_2),
                                             self.weight)),
                                   RInt(H_IN_MIN)),
                              self.duration))

Swimming_get_spent_calories(self) ==
    LET speed == get_mean_speed(self)
    IN  IF speed.exc # "none" THEN speed
        ELSE Ok(RMul(RMul(RMul(RAdd(speed.val,
                                    Swimming_CALORIES_MEAN_SPEED_SHIFT),
                               RInt(Swimming_CALORIES_WEIGHT_MULTIPLIER)),
                          self.weight),
                     self.duration))

get_spent_calories(self) ==
    CASE self.cls = "Running"       -> Running_get_spent_calories(self)
      [] self.cls = "SportsWalking" -> SportsWalking_get_spent_calories(self)
      [] self.cls = "Swimming"      -> Swimming_get_spent_calories(self)
      [] OTHER                      -> Raise("NotImplementedError")

----------------------------------------------------------------------------
(* InfoMessage and its text.                                               *)

NoInfo == [training_type |-> "None"]

InfoMessage(training_type, duration, distance, speed, calories) ==
    [training_type |-> training_type, duration |-> duration,
     distance |-> distance, speed |-> speed, calories |-> calories]

(* show_training_info evaluates its arguments left to right; the first     *)
(* exception raised by one of them leaves the method.                      *)
show_training_info(self) ==
    LET distance == get_distance(self)
        speed    == get_mean_speed(self)
        calories == get_spent_calories(self)
    IN  IF distance.exc # "none"
        THEN [exc |-> distance.exc, arg |-> distance.arg, val |-> NoInfo]
        ELSE IF speed.exc # "none"
        THEN [exc |-> speed.exc, arg |-> speed.arg, val |-> NoInfo]
        ELSE IF calories.exc # "none"
        THEN [exc |-> calories.exc, arg |-> calories.arg, val |-> NoInfo]
        ELSE Ok(InfoMessage(self.cls, self.duration, distance.val,
                            speed.val, calories.val))

(* The number nearest to 1000 * x, ties to the even neighbour, of |x|.     *)
Thousandths(x) ==
    LET t == RMul(RAbs(x), RInt(1000))
        q == t[1] \div t[2]
        r == t[1] % t[2]
    IN  IF 2 * r > t[2] THEN q + 1
        ELSE IF 2 * r = t[2] THEN q + (q % 2)
        ELSE q

Pad3(n) ==
    IF n < 10 THEN "00" \o ToString(n)
    ELSE IF n < 100 THEN "0" \o ToString(n)
    ELSE ToString(n)

(* Python's format(x, '.3f'): sign, integer part, '.', three digits.       *)
Format3f(x) ==
    LET m == Thousandths(x)
    IN  (IF x[1] < 0 THEN "-" ELSE "")
            \o ToString(m \div 1000) \o "." \o Pad3(m % 1000)

get_message(self) ==
    "Tip trenirovki: " \o self.training_type \o "; Dlitel'nost': "
        \o Format3f(self.duration) \o " ch.; Distanciya: "
        \o Format3f(self.distance) \o " km; Sr. skorost': "
        \o Format3f(self.speed) \o " km/ch; Potracheno kkal: "
        \o Format3f(self.calories) \o "."

----------------------------------------------------------------------------
(* The dispatcher.                                                         *)

(* Variant of the dispatch table with RUN and WLK exchanged (C1 depends on *)
(* the table).                                                             *)
training_classes_swapped ==
    [c \in {"SWM", "RUN", "WLK"} |->
        CASE c = "SWM" -> "Swimming"
          [] c = "RUN" -> "SportsWalking"
          [] c = "WLK" -> "Running"]

training_classes ==
    [c \in {"SWM", "RUN", "WLK"} |->
        CASE c = "SWM" -> "Swimming"
          [] c = "RUN" -> "Running"
          [] c = "WLK" -> "SportsWalking"]

(* Variant of the constructor call that takes the first values of a longer *)
(* list and ignores the rest (C3 depends on the exact count).              *)
Construct_prefix(cls, d) ==
    CASE cls = "Swimming" ->
            IF Len(d) >= 5
            THEN Ok(Swimming(d[1], d[2], d[3], d[4], d[5]))
            ELSE [exc |-> "TypeError", arg |-> "", val |-> NoTraining]
      [] cls = "Running" ->
            IF Len(d) >= 3
            THEN Ok(Running(d[1], d[2], d[3]))
            ELSE [exc |-> "TypeError", arg |-> "", val |-> NoTraining]
      [] cls = "SportsWalking" ->
            IF Len(d) >= 4
            THEN Ok(SportsWalking(d[1], d[2], d[3], d[4]))
            ELSE [exc |-> "TypeError", arg |-> "", val |-> NoTraining]

(* The call of the class on the unpacked list: a number of positional      *)
(* arguments that differs from the number of parameters of the class's     *)
(* __init__ raises TypeError.                                              *)
Construct(cls, d) ==
    CASE cls = "Swimming" ->
            IF Len(d) = 5
            THEN Ok(Swimming(d[1], d[2], d[3], d[4], d[5]))
            ELSE [exc |-> "TypeError", arg |-> "", val |-> NoTraining]
      [] cls = "Running" ->
            IF Len(d) = 3
            THEN Ok(Running(d[1], d[2], d[3]))
            ELSE [exc |-> "TypeError", arg |-> "", val |-> NoTraining]
      [] cls = "SportsWalking" ->
            IF Len(d) = 4
            THEN Ok(SportsWalking(d[1], d[2], d[3], d[4]))
            ELSE [exc |-> "TypeError", arg |-> "", val |-> NoTraining]

UnsupportedMessage(code) ==
    "Tip trenirovki \"" \o code \o "\" ne podderzhivaetsya"

(* Variant of read_package without the membership test, an unknown code    *)
(* falling back to Running (C2 depends on the test).                       *)
read_package_default(code, d) ==
    IF code \notin DOMAIN training_classes
    THEN Construct("Running", d)
    ELSE Construct(training_classes[code], d)

read_package(code, d) ==
    IF code \notin DOMAIN training_classes
    THEN [exc |-> "KeyError", arg |-> UnsupportedMessage(code),
          val |-> NoTraining]
    ELSE Construct(training_classes[code], d)

----------------------------------------------------------------------------
(* Inputs.  A data list is any prefix, of length 0 .. MaxLen, of a row     *)
(* whose k-th value is drawn from the k-th domain of the workout code.     *)

MaxLen == 6

MaxPackages == 3

MaxCalls == 2

Codes == {"SWM", "RUN", "WLK", "XYZ", ""}

ActionValues(code) ==
    CASE code = "SWM" -> {RInt(720), RInt(1440)}
      [] code = "RUN" -> {RInt(15000), RInt(9000)}
      [] code = "WLK" -> {RInt(15000), RInt(20000)}
      [] OTHER        -> {RInt(15000)}

DurationValues == {RInt(-1), RInt(0), Rat(1, 2), RInt(1)}

WeightValues == {RInt(75), RInt(80)}

FourthValues(code) ==
    CASE code = "SWM" -> {RInt(25), RInt(50)}
      [] code = "WLK" -> {RInt(0), RInt(180)}
      [] OTHER        -> {RInt(180)}

FifthValues == {RInt(40)}

ValuesAt(code, k) ==
    CASE k = 1 -> ActionValues(code)
      [] k = 2 -> DurationValues
      [] k = 3 -> WeightValues
      [] k = 4 -> FourthValues(code)
      [] k = 5 -> FifthValues
      [] OTHER -> {RInt(1)}

RECURSIVE DataOfLen(_, _)
DataOfLen(code, n) ==
    IF n = 0 THEN {<<>>}
    ELSE {Append(d, v) : d \in DataOfLen(code, n - 1), v \in ValuesAt(code, n)}

DataLists(code) == UNION {DataOfLen(code, n) : n \in 0 .. MaxLen}

(* The packages of the entry point: the SWM and RUN packages of the        *)
(* source, a WLK package (15000 steps: the calories of the source's 9000   *)
(* steps do not fit a 32-bit numerator), and packages that raise in        *)
(* read_package (unknown code, wrong number of values) or in main (zero    *)
(* duration).                                                              *)
PackagePool ==
    { <<"SWM", <<RInt(720), RInt(1), RInt(80), RInt(25), RInt(40)>>>>,
      <<"RUN", <<RInt(15000), RInt(1), RInt(75)>>>>,
      <<"WLK", <<RInt(15000), RInt(1), RInt(75), RInt(180)>>>>,
      <<"XYZ", <<RInt(1), RInt(1), RInt(1)>>>>,
      <<"RUN", <<RInt(1), RInt(1)>>>>,
      <<"RUN", <<RInt(15000), RInt(0), RInt(75)>>>> }

RECURSIVE PackagesOfLen(_)
PackagesOfLen(n) ==
    IF n = 0 THEN {<<>>}
    ELSE {Append(ps, p) : ps \in PackagesOfLen(n - 1), p \in PackagePool}

PackageLists == UNION {PackagesOfLen(n) : n \in 0 .. MaxPackages}

----------------------------------------------------------------------------
(* State.                                                                  *)
(*   workout_type, data  the arguments of read_package                     *)
(*   training            the instance read_package returned, or NoTraining *)
(*   pc                  "start", "ready", "raised" for the calls on one   *)
(*                       instance; "loop", "main", "exit", "abort" for the *)
(*                       entry-point loop                                  *)
(*   op, exc, ret, info  the last call: its name, the exception it raised, *)
(*                       the number or the InfoMessage it returned         *)
(*   first               per method, the number of its calls (at most      *)
(*                       MaxCalls) and the outcome of its first call       *)
(*   created             the instance as the constructor left it           *)
(*   packages, idx       the list the loop iterates and the number of      *)
(*                       packages taken from it                            *)
(*   stdout              the lines printed so far                          *)

Methods ==
    {"get_distance", "get_mean_speed", "get_spent_calories",
     "show_training_info"}

NoExc == [type |-> "none", arg |-> ""]

Exc(out) == [type |-> out.exc, arg |-> out.arg]

NotCalled == [calls |-> 0, exc |-> NoExc, ret |-> Zero, info |-> NoInfo]

(* The history of a method after one more call with the given outcome:     *)
(* the call is counted, and the outcome of the first call is kept.         *)
Remember(name, e, r, i) ==
    IF first[name].calls > 0
    THEN [first EXCEPT ![name].calls = @ + 1]
    ELSE [first EXCEPT ![name] =
            [calls |-> 1, exc |-> e, ret |-> r, info |-> i]]

Init ==
    /\ workout_type \in Codes
    /\ data \in DataLists(workout_type)
    /\ training = NoTraining
    /\ pc = "start"
    /\ op = "none"
    /\ exc = NoExc
    /\ ret = Zero
    /\ info = NoInfo
    /\ first = [m \in Methods |-> NotCalled]
    /\ created = NoTraining
    /\ packages = <<>>
    /\ idx = 0
    /\ stdout = <<>>

ReadPackage ==
    /\ pc = "start"
    /\ LET out == read_package(workout_type, data)
       IN  /\ training' = out.val
           /\ created' = out.val
           /\ exc' = Exc(out)
           /\ pc' = IF out.exc = "none" THEN "ready" ELSE "raised"
    /\ op' = "read_package"
    /\ UNCHANGED <<workout_type, data, ret, info, first, packages, idx,
                   stdout>>

(* Variant of the get_distance call that stores the distance in the        *)
(* instance's action field (C9 depends on the methods assigning nothing).  *)
GetDistance_in_place ==
    /\ pc = "ready"
    /\ first["get_distance"].calls < MaxCalls
    /\ LET out == get_distance(training)
       IN  /\ exc' = Exc(out)
           /\ ret' = out.val
           /\ first' = Remember("get_distance", Exc(out), out.val, NoInfo)
           /\ training' = [training EXCEPT !.action = out.val]
    /\ op' = "get_distance"
    /\ info' = NoInfo
    /\ UNCHANGED <<workout_type, data, pc, created, packages, idx, stdout>>

GetDistance ==
    /\ pc = "ready"
    /\ first["get_distance"].calls < MaxCalls
    /\ LET out == get_distance(training)
       IN  /\ exc' = Exc(out)
           /\ ret' = out.val
           /\ first' = Remember("get_distance", Exc(out), out.val, NoInfo)
    /\ op' = "get_distance"
    /\ info' = NoInfo
    /\ UNCHANGED <<workout_type, data, training, pc, created, packages, idx,
                   stdout>>

GetMeanSpeed ==
    /\ pc = "ready"
    /\ first["get_mean_speed"].calls < MaxCalls
    /\ LET out == get_mean_speed(training)
       IN  /\ exc' = Exc(out)
           /\ ret' = out.val
           /\ first' = Remember("get_mean_speed", Exc(out), out.val, NoInfo)
    /\ op' = "get_mean_speed"
    /\ info' = NoInfo
    /\ UNCHANGED <<workout_type, data, training, pc, created, packages, idx,
                   stdout>>

GetSpentCalories ==
    /\ pc = "ready"
    /\ first["get_spent_calories"].calls < MaxCalls
    /\ LET out == get_spent_calories(training)
       IN  /\ exc' = Exc(out)
           /\ ret' = out.val
           /\ first' = Remember("get_spent_calories", Exc(out), out.val,
                                NoInfo)
    /\ op' = "get_spent_calories"
    /\ info' = NoInfo
    /\ UNCHANGED <<workout_type, data, training, pc, created, packages, idx,
                   stdout>>

ShowTrainingInfo ==
    /\ pc = "ready"
    /\ first["show_training_info"].calls < MaxCalls
    /\ LET out == show_training_info(training)
       IN  /\ exc' = Exc(out)
           /\ info' = out.val
           /\ first' = Remember("show_training_info", Exc(out), Zero, out.val)
    /\ op' = "show_training_info"
    /\ ret' = Zero
    /\ UNCHANGED <<workout_type, data, training, pc, created, packages, idx,
                   stdout>>

Next ==
    \/ ReadPackage
    \/ GetDistance
    \/ GetMeanSpeed
    \/ GetSpentCalories
    \/ ShowTrainingInfo

Spec == Init /\ [][Next]_vars

----------------------------------------------------------------------------
(* The entry point: for workout_type, data in packages: read_package, then *)
(* main.  An exception leaves the loop and ends the program.               *)

MainInit ==
    /\ packages \in PackageLists
    /\ idx = 0
    /\ stdout = <<>>
    /\ pc = "loop"
    /\ workout_type = ""
    /\ data = <<>>
    /\ training = NoTraining
    /\ op = "none"
    /\ exc = NoExc
    /\ ret = Zero
    /\ info = NoInfo
    /\ first = [m \in Methods |-> NotCalled]
    /\ created = NoTraining

(* Variant of the loop step that skips a package read_package rejects and  *)
(* goes on with the next one (C6 depends on the exception ending the run). *)
LoopReadPackage_skip ==
    /\ pc = "loop"
    /\ idx < Len(packages)
    /\ idx' = idx + 1
    /\ workout_type' = packages[idx + 1][1]
    /\ data' = packages[idx + 1][2]
    /\ LET out == read_package(packages[idx + 1][1], packages[idx + 1][2])
       IN  IF out.exc = "none"
           THEN /\ training' = out.val
                /\ pc' = "main"
                /\ exc' = exc
           ELSE /\ training' = training
                /\ pc' = "loop"
                /\ exc' = Exc(out)
    /\ UNCHANGED <<op, ret, info, first, created, packages, stdout>>

LoopReadPackage ==
    /\ pc = "loop"
    /\ idx < Len(packages)
    /\ idx' = idx + 1
    /\ workout_type' = packages[idx + 1][1]
    /\ data' = packages[idx + 1][2]
    /\ LET out == read_package(packages[idx + 1][1], packages[idx + 1][2])
       IN  IF out.exc = "none"
           THEN /\ training' = out.val
                /\ pc' = "main"
                /\ exc' = exc
           ELSE /\ training' = training
                /\ pc' = "abort"
                /\ exc' = Exc(out)
    /\ UNCHANGED <<op, ret, info, first, created, packages, stdout>>

Main ==
    /\ pc = "main"
    /\ LET out == show_training_info(training)
       IN  IF out.exc = "none"
           THEN /\ info' = out.val
                /\ stdout' = Append(stdout, get_message(out.val))
                /\ pc' = "loop"
                /\ exc' = exc
           ELSE /\ info' = info
                /\ stdout' = stdout
                /\ pc' = "abort"
                /\ exc' = Exc(out)
    /\ UNCHANGED <<workout_type, data, training, op, ret, first, created,
                   packages, idx>>

LoopExit ==
    /\ pc = "loop"
    /\ idx = Len(packages)
    /\ pc' = "exit"
    /\ UNCHANGED <<workout_type, data, training, op, exc, ret, info, first,
                   created, packages, idx, stdout>>

MainNext ==
    \/ LoopReadPackage
    \/ Main
    \/ LoopExit

MainSpec == MainInit /\ [][MainNext]_vars

----------------------------------------------------------------------------
(* Comparisons of rationals, used to state the properties.                 *)

RNeg(a) == <<-a[1], a[2]>>

RLess(a, b) == a[1] * b[2] < b[1] * a[2]

RLeq(a, b) == a[1] * b[2] <= b[1] * a[2]

----------------------------------------------------------------------------
(* Properties of the dispatcher.                                           *)

KnownCodes == {"SWM", "RUN", "WLK"}

(* The number of values each variant's constructor takes, and the label    *)
(* its report carries, as the specification states them.                   *)
ArityOf(code) ==
    CASE code = "SWM" -> 5
      [] code = "RUN" -> 3
      [] code = "WLK" -> 4

LabelOf(code) ==
    CASE code = "SWM" -> "Swimming"
      [] code = "RUN" -> "Running"
      [] code = "WLK" -> "SportsWalking"

(* C1: for a known code and a value list of the variant's exact arity,     *)
(* read_package returns an instance of the class mapped to the code        *)
(* (SWM -> Swimming, RUN -> Running, WLK -> SportsWalking) whose fields    *)
(* are the values in positional order, and the report built from it is     *)
(* labelled with the class name.                                           *)
C1_DispatchBuildsVariant ==
    (/\ pc # "start"
     /\ workout_type \in KnownCodes
     /\ Len(data) = ArityOf(workout_type))
    => /\ pc = "ready"
       /\ training.cls = LabelOf(workout_type)
       /\ training.action = data[1]
       /\ training.duration = data[2]
       /\ training.weight = data[3]
       /\ workout_type = "RUN" =>
              DOMAIN training = {"cls", "action", "duration", "weight"}
       /\ workout_type = "WLK" => training.height = data[4]
       /\ workout_type = "SWM" =>
              /\ training.length_pool = data[4]
              /\ training.count_pool = data[5]
       /\ (op = "show_training_info" /\ exc.type = "none") =>
              info.training_type = LabelOf(workout_type)

C1_Witness ==
    /\ pc = "ready"
    /\ workout_type = "WLK"
    /\ training.cls = "SportsWalking"
    /\ training.height = RInt(180)
    /\ op = "show_training_info"
    /\ info.training_type = "SportsWalking"

(* C2: for a code that is not SWM, RUN or WLK, whatever the value list,    *)
(* read_package raises KeyError with a message that quotes the code, and   *)
(* no instance is constructed.                                             *)
C2_UnknownCodeRaises ==
    (pc # "start" /\ workout_type \notin KnownCodes)
    => /\ pc = "raised"
       /\ exc.type = "KeyError"
       /\ exc.arg = "Tip trenirovki \"" \o workout_type
                        \o "\" ne podderzhivaetsya"
       /\ training = NoTraining

C2_Witness ==
    /\ pc = "raised"
    /\ workout_type = "XYZ"
    /\ Len(data) = 3
    /\ exc.type = "KeyError"
    /\ training = NoTraining

(* C3: for a known code, a value list shorter or longer than the variant's *)
(* arity makes read_package raise TypeError and return no instance; an     *)
(* instance is returned only for a list of exactly the arity.              *)
C3_WrongArityRaises ==
    (pc # "start" /\ workout_type \in KnownCodes)
    => /\ Len(data) # ArityOf(workout_type) =>
              /\ pc = "raised"
              /\ exc.type = "TypeError"
              /\ training = NoTraining
       /\ pc = "ready" => Len(data) = ArityOf(workout_type)

C3_Witness ==
    /\ pc = "raised"
    /\ workout_type = "RUN"
    /\ Len(data) = 4
    /\ exc.type = "TypeError"
    /\ training = NoTraining

----------------------------------------------------------------------------
(* Properties of the duration.                                             *)

(* C4: on an instance of any class whose duration is 0, get_mean_speed,    *)
(* get_spent_calories and show_training_info each raise                    *)
(* ZeroDivisionError; none returns a number or a report.                   *)
C4_ZeroDurationRaises ==
    (/\ pc = "ready"
     /\ training.duration = Zero
     /\ op \in {"get_mean_speed", "get_spent_calories", "show_training_info"})
    => /\ exc.type = "ZeroDivisionError"
       /\ info = NoInfo

C4_Witness ==
    /\ pc = "ready"
    /\ training.cls = "Swimming"
    /\ training.duration = Zero
    /\ op = "show_training_info"
    /\ first["get_mean_speed"].exc.type = "ZeroDivisionError"
    /\ first["get_spent_calories"].exc.type = "ZeroDivisionError"
    /\ exc.type = "ZeroDivisionError"

(* C5: every instance that exists after construction has duration > 0,     *)
(* and no report is produced for a duration that is not positive.          *)
C5_DurationPositive ==
    /\ training # NoTraining => RLess(Zero, training.duration)
    /\ (op = "show_training_info" /\ exc.type = "none") =>
           RLess(Zero, training.duration)

----------------------------------------------------------------------------
(* Properties of the entry-point loop (checked under MainSpec).            *)

(* The line the program prints for a package that raises nothing.          *)
LineOf(p) ==
    get_message(show_training_info(read_package(p[1], p[2]).val).val)

Fails(p) ==
    LET t == read_package(p[1], p[2])
    IN  t.exc # "none" \/ show_training_info(t.val).exc # "none"

(* C6: at every point the output is the lines of a prefix of the packages, *)
(* one line per package in input order; a run that ends without an         *)
(* exception has printed one line per package; once a package has raised,  *)
(* the output holds no line for it nor for a later package.                *)
C6_OutputIsPrefix ==
    /\ Len(stdout) <= Len(packages)
    /\ \A k \in 1 .. Len(stdout) :
           ~Fails(packages[k]) /\ stdout[k] = LineOf(packages[k])
    /\ pc = "loop" => Len(stdout) = idx
    /\ pc = "main" => Len(stdout) = idx - 1
    /\ pc = "exit" =>
           /\ Len(stdout) = Len(packages)
           /\ \A k \in 1 .. Len(packages) : ~Fails(packages[k])
    /\ pc = "abort" =>
           /\ Fails(packages[idx])
           /\ Len(stdout) = idx - 1
    /\ \A k \in 1 .. Len(packages) :
           Fails(packages[k]) => Len(stdout) < k

C6_Witness ==
    /\ pc = "abort"
    /\ Len(packages) = 3
    /\ idx = 2
    /\ Len(stdout) = 1
    /\ ~Fails(packages[3])
    /\ stdout[1] = LineOf(<<"SWM", <<RInt(720), RInt(1), RInt(80), RInt(25),
                                      RInt(40)>>>>)

----------------------------------------------------------------------------
(* Properties of the formulas.                                             *)

Near(x, y, tol) == RLeq(RAbs(RAdd(x, RNeg(y))), tol)

Cent == Rat(1, 200)

SpecRunning == Running(RInt(15000), RInt(1), RInt(75))

SpecSwimming == Swimming(RInt(720), RInt(1), RInt(80), RInt(25), RInt(40))

(* C7 as stated: for Running with action 15000, duration 1, weight 75 the  *)
(* distance is 9.75, the mean speed 9.75 and the calories about 1582.03.   *)
C7_AsStated ==
    (pc = "ready" /\ training = SpecRunning /\ exc.type = "none")
    => /\ op = "get_distance" => ret = Rat(975, 100)
       /\ op = "get_mean_speed" => ret = Rat(975, 100)
       /\ op = "get_spent_calories" => Near(ret, Rat(158203, 100), Cent)

(* C7 amended: for Running with action 15000, duration 1, weight 75 the    *)
(* distance is 9.75, the mean speed 9.75 and the calories about 797.805,   *)
(* and none of the three calls raises.                                     *)
C7_RunningExample ==
    (pc = "ready" /\ training = SpecRunning /\ op \in Methods)
    => /\ exc.type = "none"
       /\ op = "get_distance" => ret = Rat(975, 100)
       /\ op = "get_mean_speed" => ret = Rat(975, 100)
       /\ op = "get_spent_calories" => Near(ret, Rat(797805, 1000), Cent)

C7_Witness ==
    /\ pc = "ready"
    /\ training = SpecRunning
    /\ first["get_distance"].calls > 0
    /\ first["get_mean_speed"].calls > 0
    /\ op = "get_spent_calories"
    /\ exc.type = "none"
    /\ ret = Rat(797805, 1000)

(* The reference formulas of the specification, on a mean speed v.         *)
RefSpeed(t) ==
    IF t.cls = "Swimming"
    THEN RQuot(RQuot(RMul(t.length_pool, t.count_pool), RInt(1000)),
               t.duration)
    ELSE RQuot(get_distance(t).val, t.duration)

RefRunning(t, v) ==
    RMul(RMul(RQuot(RMul(RAdd(RMul(RInt(18), v), Rat(179, 100)), t.weight),
                    RInt(1000)),
              RInt(60)),
         t.duration)

RefWalking(t, v) ==
    LET ms == RMul(v, Rat(278, 1000))
    IN  RMul(RMul(RAdd(RMul(Rat(35, 1000), t.weight),
                       RMul(RMul(RQuot(RMul(ms, ms),
                                       RQuot(t.height, RInt(100))),
                                 Rat(29, 1000)),
                            t.weight)),
                  RInt(60)),
             t.duration)

RefSwimming(t, v) ==
    RMul(RMul(RMul(RAdd(v, Rat(11, 10)), RInt(2)), t.weight), t.duration)

RefCalories(t, v) ==
    CASE t.cls = "Running"       -> RefRunning(t, v)
      [] t.cls = "SportsWalking" -> RefWalking(t, v)
      [] t.cls = "Swimming"      -> RefSwimming(t, v)

(* The reference formula has no value when it divides by zero, which for   *)
(* a positive duration is Walking with height 0.                           *)
RefDefined(t) == ~(t.cls = "SportsWalking" /\ t.height = Zero)

(* C8: for every instance with duration > 0, get_mean_speed returns        *)
(* distance / duration (Swimming: length_pool * count_pool / 1000 /        *)
(* duration) and get_spent_calories returns the variant's reference        *)
(* formula on that mean speed; where the formula divides by zero the call  *)
(* raises ZeroDivisionError.  Swimming with 720, 1, 80, 25, 40 has speed   *)
(* 1 and calories 336.                                                     *)
C8_CaloriesFollowFormula ==
    (pc = "ready" /\ RLess(Zero, training.duration))
    => /\ op = "get_mean_speed" =>
              exc.type = "none" /\ ret = RefSpeed(training)
       /\ op = "get_spent_calories" =>
              IF RefDefined(training)
              THEN /\ exc.type = "none"
                   /\ ret = RefCalories(training, get_mean_speed(training).val)
                   /\ ret = RefCalories(training, RefSpeed(training))
              ELSE exc.type = "ZeroDivisionError"
       /\ (training = SpecSwimming /\ op = "get_mean_speed") => ret = RInt(1)
       /\ (training = SpecSwimming /\ op = "get_spent_calories") =>
              ret = RInt(336)

C8_Witness ==
    /\ pc = "ready"
    /\ training = SpecSwimming
    /\ first["get_mean_speed"].ret = RInt(1)
    /\ first["get_mean_speed"].calls > 0
    /\ op = "get_spent_calories"
    /\ ret = RInt(336)

(* C9: after any sequence of method calls on an instance, the instance is  *)
(* field for field as its constructor left it, and the outcome of the      *)
(* last call equals the outcome of the first call of the same method.      *)
C9_CallsLeaveRecordAlone ==
    pc = "ready"
    => /\ training = created
       /\ training = read_package(workout_type, data).val
       /\ op \in Methods =>
              /\ first[op].calls > 0
              /\ first[op].exc = exc
              /\ first[op].ret = ret
              /\ first[op].info = info

C9_Witness ==
    /\ pc = "ready"
    /\ training.cls = "SportsWalking"
    /\ training.height = RInt(180)
    /\ training.duration = Rat(1, 2)
    /\ \A m \in Methods : first[m].calls = MaxCalls
    /\ op = "get_spent_calories"
    /\ exc.type = "none"
    /\ ret = first["get_spent_calories"].ret
    /\ training = created

(* C10 as stated: for Swimming, the distance returned and reported is      *)
(* length_pool * count_pool / 1000, whatever the action count, and the     *)
(* reported speed is the reported distance divided by the duration.        *)
C10_AsStated ==
    (/\ pc = "ready"
     /\ training.cls = "Swimming"
     /\ RLess(Zero, training.duration)
     /\ exc.type = "none")
    => /\ op = "get_distance" =>
              ret = RQuot(RMul(training.length_pool, training.count_pool),
                          RInt(1000))
       /\ op = "show_training_info" =>
              /\ info.distance =
                     RQuot(RMul(training.length_pool, training.count_pool),
                           RInt(1000))
              /\ info.speed = RQuot(info.distance, info.duration)

(* C10 amended: get_distance and the report's distance are                 *)
(* action * 1.38 / 1000 for Swimming and action * 0.65 / 1000 for Running  *)
(* and Walking: Swimming's distance depends on the action count and not    *)
(* on the pool; only Swimming's mean speed is computed from the pool, as   *)
(* length_pool * count_pool / 1000 / duration.                             *)
C10_SwimmingDistanceFromStrokes ==
    (pc = "ready" /\ exc.type = "none")
    => LET stride   == IF training.cls = "Swimming"
                       THEN Rat(138, 100) ELSE Rat(65, 100)
           distance == RQuot(RMul(training.action, stride), RInt(1000))
       IN  /\ op = "get_distance" => ret = distance
           /\ op = "show_training_info" =>
                  /\ info.distance = distance
                  /\ info.speed = RefSpeed(training)
           /\ op = "get_mean_speed" => ret = RefSpeed(training)

C10_Witness ==
    /\ pc = "ready"
    /\ training = SpecSwimming
    /\ op = "show_training_info"
    /\ exc.type = "none"
    /\ info.distance = Rat(9936, 10000)
    /\ info.speed = RInt(1)
    /\ info.speed # RQuot(info.distance, info.duration)

====
